---------------------------- MODULE Spec2Model ----------------------------
(***************************************************************************)
(* A model of the synthesia-sdk client library.                            *)
(*                                                                         *)
(*   - Synthesia owns four API objects (videos, templates, webhooks,       *)
(*     uploads); each one extends SynthesiaClient and therefore owns its   *)
(*     own axios instances and its own rateLimitInfo field.                *)
(*   - SynthesiaClient.request sends one HTTP request and turns the        *)
(*     transport outcome into an APIResponse {data} / {error}.             *)
(*   - SynthesiaUtils.pollVideoStatus is the status polling loop.          *)
(*                                                                         *)
(* Record constructors list their fields in one fixed order throughout.    *)
(*                                                                         *)
(* JavaScript values are records tagged by the field t.  A string is       *)
(* either an opaque literal (t = "string") or, where the code looks at     *)
(* its characters (parseInt of a header), a sequence of characters         *)
(* (t = "chars").                                                          *)
(***************************************************************************)
EXTENDS Integers, Sequences, FiniteSets, TLC

VARIABLES
    config,          \* SynthesiaClient.config, as the constructor stored it
    rateLimitInfo,   \* SynthesiaClient.rateLimitInfo of each of the four API objects
    call,            \* the façade call in progress: position, request, promise, result
    sent,            \* the HTTP requests the call in progress has handed to axios
    lastCarrying,    \* history: per API object, headers of the last response with all three rate-limit headers
    lastCarryingAny, \* history: the same, over all four API objects of the Synthesia instance
    poll,            \* pollVideoStatus: position, loop counter, inputs, outcome
    fetchLog,        \* history: the results getVideo returned, in order
    sleepLog,        \* history: the durations passed to sleep, in order
    statusLog,       \* history: the statuses passed to onStatusUpdate, in order
    eventLog,        \* history: getVideo results, onStatusUpdate calls and sleeps, in program order
    util,            \* the last call of a synchronous SynthesiaUtils / SynthesiaSDKError function
    inflight,        \* concurrent requests on the videos API object: those awaiting their response
    arrivals         \* history: the outcomes of those requests, in the order they were processed

flightVars == <<inflight, arrivals>>
clientVars == <<config, rateLimitInfo, call, sent, lastCarrying, lastCarryingAny, inflight, arrivals>>
pollVars == <<poll, fetchLog, sleepLog, statusLog, eventLog>>
utilVars == <<util>>
vars == <<config, rateLimitInfo, call, sent, lastCarrying, lastCarryingAny,
          poll, fetchLog, sleepLog, statusLog, eventLog, util, inflight, arrivals>>

---------------------------------------------------------------------------
(* JavaScript values *)

Undefined == [t |-> "undefined"]
Null == [t |-> "null"]
NaN == [t |-> "NaN"]
Str(s) == [t |-> "string", v |-> s]
Chars(cs) == [t |-> "chars", v |-> cs]
Num(n) == [t |-> "number", v |-> n]
Bool(b) == [t |-> "boolean", v |-> b]

\* ToBoolean: what `if (v)`, `!v` and `a || b` look at.
Truthy(v) ==
    CASE v.t = "undefined" -> FALSE
      [] v.t = "null" -> FALSE
      [] v.t = "NaN" -> FALSE
      [] v.t = "string" -> v.v # ""
      [] v.t = "chars" -> v.v # <<>>
      [] v.t = "number" -> v.v # 0
      [] v.t = "boolean" -> v.v
      [] OTHER -> TRUE

\* a || b
JsOr(a, b) == IF Truthy(a) THEN a ELSE b

\* v.f and v?.f on a value that is not null/undefined: a missing property reads undefined.
Get(v, f) == IF v.t = "object" /\ f \in DOMAIN v THEN v[f] ELSE Undefined

\* "populated": the field holds a value (neither undefined nor null).
Populated(v) == v # Undefined /\ v # Null

---------------------------------------------------------------------------
(* parseInt(string), radix omitted *)

DecDigits == <<"0", "1", "2", "3", "4", "5", "6", "7", "8", "9">>
HexDigits == <<"0", "1", "2", "3", "4", "5", "6", "7", "8", "9", "a", "b", "c", "d", "e", "f">>
HexUpper == <<"0", "1", "2", "3", "4", "5", "6", "7", "8", "9", "A", "B", "C", "D", "E", "F">>

\* The value of ch as a digit of the radix Len(digits), -1 when it is none.
DigitValue(ch, digits) ==
    IF \E i \in 1..Len(digits) : digits[i] = ch
    THEN (CHOOSE i \in 1..Len(digits) : digits[i] = ch) - 1
    ELSE IF Len(digits) = 16 /\ \E i \in 1..16 : HexUpper[i] = ch
    THEN (CHOOSE i \in 1..16 : HexUpper[i] = ch) - 1
    ELSE -1

RECURSIVE SkipSpaces(_)
SkipSpaces(cs) == IF cs # <<>> /\ Head(cs) = " " THEN SkipSpaces(Tail(cs)) ELSE cs

\* The value of the longest prefix of cs made of digits of the radix, continuing from acc;
\* seen tells whether a digit has been read.
RECURSIVE ParseDigits(_, _, _, _)
ParseDigits(cs, digits, acc, seen) ==
    IF cs # <<>> /\ DigitValue(Head(cs), digits) >= 0
    THEN ParseDigits(Tail(cs), digits, acc * Len(digits) + DigitValue(Head(cs), digits), TRUE)
    ELSE [seen |-> seen, value |-> acc]

ParseInt(v) ==
    IF v.t # "chars" THEN NaN
    ELSE LET s0 == SkipSpaces(v.v)
             neg == s0 # <<>> /\ Head(s0) = "-"
             s1 == IF s0 # <<>> /\ Head(s0) \in {"-", "+"} THEN Tail(s0) ELSE s0
             hex == Len(s1) >= 2 /\ s1[1] = "0" /\ s1[2] \in {"x", "X"}
             r == IF hex THEN ParseDigits(Tail(Tail(s1)), HexDigits, 0, FALSE)
                         ELSE ParseDigits(s1, DecDigits, 0, FALSE)
         IN  IF ~r.seen THEN NaN
             ELSE Num(IF neg THEN 0 - r.value ELSE r.value)

---------------------------------------------------------------------------
(* The transport: what axios hands to the interceptors *)

Apis == {"videos", "templates", "webhooks", "uploads"}

\* response.headers: each rate-limit header is undefined (not sent) or a string.
Headers(l, r, t) ==
    [t |-> "object", limit |-> l, remaining |-> r, reset |-> t]

HdrNone == Headers(Undefined, Undefined, Undefined)
HdrA == Headers(Chars(<<"6", "0">>), Chars(<<"4", "5">>), Chars(<<"1", "7", "0", "0">>))
HdrB == Headers(Chars(<<"1", "0", "0">>), Chars(<<"0">>), Chars(<<"1", "8", "0", "0">>))
HdrPartial == Headers(Chars(<<"6", "0">>), Undefined, Chars(<<"1", "9", "0", "0">>))
HdrEmpty == Headers(Chars(<<"7", "0">>), Chars(<<>>), Chars(<<"1", "9", "0", "0">>))

HdrJunk == Headers(Chars(<<"a", "b", "c">>), Chars(<<"1", "2", "x">>), Chars(<<"s", "o", "o", "n">>))

HeaderSets == {HdrNone, HdrA, HdrB, HdrPartial, HdrEmpty}

\* Response bodies (response.data after axios has parsed it).
ResourceBody == [t |-> "object", id |-> Str("res-1")]
ErrFull ==
    [t |-> "object", message |-> Str("Invalid input"), error |-> Undefined,
     code |-> Str("VALIDATION_ERROR"), details |-> Str("title is required")]
ErrBoth ==
    [t |-> "object", message |-> Str("Not found"), error |-> Str("not_found"),
     code |-> Undefined, details |-> Undefined]
ErrOnlyError ==
    [t |-> "object", message |-> Undefined, error |-> Str("Invalid Content-Type header"),
     code |-> Undefined, details |-> Undefined]
ErrNoMessage ==
    [t |-> "object", message |-> Undefined, error |-> Undefined,
     code |-> Str("E_LIMIT"), details |-> Undefined]
HtmlBody == Str("<html>Bad Gateway</html>")

SuccessBodies == {ResourceBody, Null}
ErrorBodies == {ErrFull, ErrBoth, ErrOnlyError, ErrNoMessage, HtmlBody, Null}

\* HTTP statuses the service answers with.
Statuses == {200, 204, 400, 401, 404, 429, 500}

\* axios' default validateStatus: the promise is fulfilled for 2xx and rejected otherwise.
ValidateStatus(status) == status >= 200 /\ status < 300

AxiosResponse(status, data, headers) ==
    [t |-> "object", status |-> Num(status), data |-> data, headers |-> headers]

\* The body a response carries when only its headers are of interest.
UsualBody(status) == IF ValidateStatus(status) THEN ResourceBody ELSE ErrFull

\* The bodies a status can come with.
BodiesOf(status) == IF ValidateStatus(status) THEN SuccessBodies ELSE ErrorBodies

\* The responses of the service: every status with every body it can come with (and no
\* rate-limit headers), and every status with every set of rate-limit headers.
Responses ==
    {AxiosResponse(sb[1], sb[2], HdrNone) :
        sb \in {x \in Statuses \X (SuccessBodies \cup ErrorBodies) : x[2] \in BodiesOf(x[1])}}
    \cup
    {AxiosResponse(s, UsualBody(s), h) : s \in Statuses, h \in HeaderSets}

\* The message axios gives an AxiosError.
StatusMessage == Str("Request failed with status code")
NetworkMessage == Str("Network Error")

\* The AxiosError of a response outside 2xx, and of a request that got no response.
AxiosError(message, response) ==
    [t |-> "object", message |-> message, response |-> response]

\* What the transport does with one request: a response, or no response at all.
NoResponse == Undefined
Outcomes == Responses \cup {NoResponse}

---------------------------------------------------------------------------
(* SynthesiaClient *)

RateLimitInfo(limit, remaining, resetAt) ==
    [t |-> "object", limit |-> limit, remaining |-> remaining, resetAt |-> resetAt]

\* Faulty variant: a response without all three headers clears the snapshot.
updateRateLimitInfoClears(old, response) ==
    IF ~Truthy(Get(response, "headers")) THEN old
    ELSE LET limit == response.headers.limit
             remaining == response.headers.remaining
             resetAt == response.headers.reset
         IN  IF Truthy(limit) /\ Truthy(remaining) /\ Truthy(resetAt)
             THEN RateLimitInfo(ParseInt(limit), ParseInt(remaining), resetAt)
             ELSE Undefined

\* updateRateLimitInfo(response): the new value of this.rateLimitInfo, given the old one.
\* Faulty variant: a later snapshot keeps the reset time of the one it replaces.
updateRateLimitInfoMixes(old, response) ==
    IF ~Truthy(Get(response, "headers")) THEN old
    ELSE LET limit == response.headers.limit
             remaining == response.headers.remaining
             resetAt == response.headers.reset
         IN  IF Truthy(limit) /\ Truthy(remaining) /\ Truthy(resetAt)
             THEN RateLimitInfo(ParseInt(limit), ParseInt(remaining),
                                IF old = Undefined THEN resetAt ELSE old.resetAt)
             ELSE old

\* Faulty variant: each header that is present overwrites its own field.
updateRateLimitInfoFieldwise(old, response) ==
    IF ~Truthy(Get(response, "headers")) THEN old
    ELSE LET limit == response.headers.limit
             remaining == response.headers.remaining
             resetAt == response.headers.reset
         IN  IF Truthy(limit) \/ Truthy(remaining) \/ Truthy(resetAt)
             THEN RateLimitInfo(IF Truthy(limit) THEN ParseInt(limit) ELSE Get(old, "limit"),
                                IF Truthy(remaining) THEN ParseInt(remaining)
                                ELSE Get(old, "remaining"),
                                IF Truthy(resetAt) THEN resetAt ELSE Get(old, "resetAt"))
             ELSE old

updateRateLimitInfo(old, response) ==
    IF ~Truthy(Get(response, "headers")) THEN old
    ELSE LET limit == response.headers.limit
             remaining == response.headers.remaining
             resetAt == response.headers.reset
         IN  IF Truthy(limit) /\ Truthy(remaining) /\ Truthy(resetAt)
             THEN RateLimitInfo(ParseInt(limit), ParseInt(remaining), resetAt)
             ELSE old

\* Faulty variant: the status of the response is not read.
handleErrorAlways500(error) ==
    LET base == [t |-> "object", message |-> error.message, code |-> Undefined,
                 details |-> Undefined, statusCode |-> Num(500)]
        errorData == Get(error.response, "data")
    IN  IF Truthy(errorData)
        THEN [base EXCEPT
                !.message = JsOr(Get(errorData, "message"), JsOr(Get(errorData, "error"), error.message)),
                !.code = Get(errorData, "code"),
                !.details = Get(errorData, "details")]
        ELSE base

\* Faulty variant: the `error` field of the body is not consulted.
handleErrorNoErrorField(error) ==
    LET base == [t |-> "object", message |-> error.message,
                 code |-> Undefined, details |-> Undefined,
                 statusCode |-> JsOr(Get(error.response, "status"), Num(500))]
        errorData == Get(error.response, "data")
    IN  IF Truthy(errorData)
        THEN [base EXCEPT
                !.message = JsOr(Get(errorData, "message"), error.message),
                !.code = Get(errorData, "code"),
                !.details = Get(errorData, "details")]
        ELSE base

\* handleError(error): the SynthesiaError built from an AxiosError.
handleError(error) ==
    LET base == [t |-> "object", message |-> error.message,
                 code |-> Undefined, details |-> Undefined,
                 statusCode |-> JsOr(Get(error.response, "status"), Num(500))]
        errorData == Get(error.response, "data")
    IN  IF Truthy(errorData)
        THEN [base EXCEPT
                !.message = JsOr(Get(errorData, "message"), JsOr(Get(errorData, "error"), error.message)),
                !.code = Get(errorData, "code"),
                !.details = Get(errorData, "details")]
        ELSE base

\* A settled promise.
Fulfilled(v) == [value |-> v, state |-> "fulfilled"]
Rejected(e) == [value |-> e, state |-> "rejected"]
Pending == [value |-> Undefined, state |-> "pending"]

\* {...base, ...over}: the own keys of over replace those of base; spreading
\* undefined adds nothing.
Spread(base, over) ==
    IF over.t # "object" THEN base
    ELSE [k \in DOMAIN base \cup DOMAIN over |-> IF k \in DOMAIN over THEN over[k] ELSE base[k]]

\* The configurations given to new Synthesia(config), and the two hosts.
ApiKey == Str("test-key")
DefaultBaseURL == Str("https://api.synthesia.io/v2")
UploadBaseURL == Str("https://upload.api.synthesia.io/v2")
Configs ==
    {[t |-> "object", apiKey |-> ApiKey],
     [t |-> "object", apiKey |-> Str("other-key")],
     [t |-> "object", apiKey |-> Str("staging-key"),
      baseURL |-> Str("https://staging.example.com/v2")]}

\* The constructor: this.config = { baseURL: 'https://api.synthesia.io/v2', ...config }.
constructor(c) == Spread([t |-> "object", baseURL |-> DefaultBaseURL], c)

\* this.http and this.uploadHttp, as the constructor creates them from this.config.
Http ==
    [headers |-> [t |-> "object", Authorization |-> config.apiKey,
                  ContentType |-> Str("application/json")],
     baseURL |-> config.baseURL]
UploadHttp ==
    [headers |-> [t |-> "object", Authorization |-> config.apiKey, ContentType |-> Undefined],
     baseURL |-> UploadBaseURL]

\* The options argument of request: {params}, {headers, uploadApi} or undefined.
Options(params, headers, uploadApi) ==
    [t |-> "object", headers |-> headers, params |-> params, uploadApi |-> uploadApi]

\* Faulty variant: the headers of the request config replace the instance's defaults.
MergeHeadersReplaces(defaults, given) ==
    IF given = Undefined THEN defaults
    ELSE [h \in DOMAIN defaults |-> IF h \in DOMAIN given THEN given[h] ELSE Undefined]

\* axios merging the instance's default headers with those of the request config.
MergeHeaders(defaults, given) ==
    IF given = Undefined THEN defaults
    ELSE [h \in DOMAIN defaults |-> IF h \in DOMAIN given THEN given[h] ELSE defaults[h]]

\* Faulty variant: every request goes through this.http.
requestIgnoresUploadApi(method, endpoint, data, options) ==
    LET headers == IF Truthy(Get(options, "headers")) THEN options.headers ELSE Undefined
    IN  [data |-> data, headers |-> MergeHeaders(Http.headers, headers),
         baseURL |-> Http.baseURL, params |-> Get(options, "params"),
         method |-> method, url |-> endpoint]

\* request(method, endpoint, data, options) up to the await: the HTTP request it
\* hands to the axios instance it selects.
request(method, endpoint, data, options) ==
    LET client == IF Truthy(Get(options, "uploadApi")) THEN UploadHttp ELSE Http
        headers == IF Truthy(Get(options, "headers")) THEN options.headers ELSE Undefined
    IN  [data |-> data, headers |-> MergeHeaders(client.headers, headers),
         baseURL |-> client.baseURL, params |-> Get(options, "params"),
         method |-> method, url |-> endpoint]

get(endpoint, params) == request("GET", endpoint, Undefined, Options(params, Undefined, Undefined))
post(endpoint, data) == request("POST", endpoint, data, Undefined)
put(endpoint, data) == request("PUT", endpoint, data, Undefined)
patch(endpoint, data) == request("PATCH", endpoint, data, Undefined)
delete(endpoint) == request("DELETE", endpoint, Undefined, Undefined)

\* The response interceptor pair of setupInterceptors: the new rateLimitInfo and the
\* promise client.request(...) settles to.
responseInterceptor(old, response) ==
    [rateLimitInfo |-> updateRateLimitInfo(old, response), promise |-> Fulfilled(response)]

\* Faulty variant: the error interceptor does not look at the headers.
errorInterceptorNoUpdate(old, error) ==
    [rateLimitInfo |-> old, promise |-> Rejected(handleError(error))]

errorInterceptor(old, error) ==
    [rateLimitInfo |-> updateRateLimitInfo(old, error.response),
     promise |-> Rejected(handleError(error))]

\* axios settling a request: 2xx goes to the response interceptor, anything else
\* (another status, or no response) to the error interceptor.
Intercept(old, outcome) ==
    IF outcome = NoResponse
    THEN errorInterceptor(old, AxiosError(NetworkMessage, Undefined))
    ELSE IF ValidateStatus(outcome.status.v)
    THEN responseInterceptor(old, outcome)
    ELSE errorInterceptor(old, AxiosError(StatusMessage, outcome))

\* An APIResponse; a key that is not set reads undefined.
APIResponse(data, error) == [t |-> "object", error |-> error, data |-> data]

\* Faulty variant: data is the whole response instead of its body.
requestReturnWholeResponse(promise) ==
    IF promise.state = "fulfilled"
    THEN Fulfilled(APIResponse(promise.value, Undefined))
    ELSE Fulfilled(APIResponse(Undefined, promise.value))

\* Faulty variant: no catch block, the rejection goes on to the caller.
requestReturnNoCatch(promise) ==
    IF promise.state = "fulfilled"
    THEN Fulfilled(APIResponse(promise.value.data, Undefined))
    ELSE promise

\* Faulty variant: the catch block swallows the error.
requestReturnSwallows(promise) ==
    IF promise.state = "fulfilled"
    THEN Fulfilled(APIResponse(promise.value.data, Undefined))
    ELSE Fulfilled(APIResponse(Undefined, Undefined))

\* Faulty variant: an empty body is replaced by an empty object.
requestReturnDataOrEmpty(promise) ==
    IF promise.state = "fulfilled"
    THEN Fulfilled(APIResponse(JsOr(promise.value.data, [t |-> "object"]), Undefined))
    ELSE Fulfilled(APIResponse(Undefined, promise.value))

\* request after the await: the try block returns {data}, the catch block {error}.
requestReturn(promise) ==
    IF promise.state = "fulfilled"
    THEN Fulfilled(APIResponse(promise.value.data, Undefined))
    ELSE Fulfilled(APIResponse(Undefined, promise.value))

---------------------------------------------------------------------------
(* The façades: VideosAPI, TemplatesAPI, WebhooksAPI, UploadsAPI *)

\* `if (request?.f) params.f = request.f` for each f of fields, starting from {}.
TruthyParams(req, fields) ==
    [k \in {"t"} \cup {f \in fields : Truthy(Get(req, f))} |->
        IF k = "t" THEN "object" ELSE req[k]]

createVideo(req) == post(<<"/videos">>, req)
listVideos(req) == get(<<"/videos">>, TruthyParams(req, {"source", "offset", "limit"}))
getVideo(videoId) == get(<<"/videos/", videoId>>, Undefined)
updateVideo(videoId, req) == patch(<<"/videos/", videoId>>, req)
deleteVideo(videoId) == delete(<<"/videos/", videoId>>)
createVideoFromTemplate(templateId, data, options) ==
    post(<<"/videos/fromTemplate">>,
         Spread([t |-> "object", templateId |-> templateId, templateData |-> data,
                 title |-> JsOr(Get(options, "title"), Str("Video from Template")),
                 visibility |-> JsOr(Get(options, "visibility"), Str("private"))],
                options))
getVideoXLIFF(videoId, options) ==
    get(<<"/videos/", videoId, "/xliff">>, TruthyParams(options, {"videoVersion", "xliffVersion"}))
uploadXLIFFTranslation(req) == post(<<"/translate/manual">>, req)

listTemplates(req) == get(<<"/templates">>, TruthyParams(req, {"source", "offset", "limit"}))
getTemplate(templateId) == get(<<"/templates/", templateId>>, Undefined)
getSynthesiaTemplates == listTemplates([t |-> "object", source |-> Str("synthesia")])
getWorkspaceTemplates == listTemplates([t |-> "object", source |-> Str("workspace")])

createWebhook(req) == post(<<"/webhooks">>, req)
listWebhooks(req) ==
    get(<<"/webhooks">>,
        Spread(TruthyParams(req, {"limit", "offset"}),
               IF Get(req, "deleted") # Undefined
               THEN [t |-> "object", deleted |-> req.deleted] ELSE Undefined))
getWebhook(webhookId) == get(<<"/webhooks/", webhookId>>, Undefined)
deleteWebhook(webhookId) == delete(<<"/webhooks/", webhookId>>)
updateWebhook(webhookId, req) == patch(<<"/webhooks/", webhookId>>, req)

uploadAsset(req) ==
    request("POST", <<"/assets">>, req.file,
            Options(Undefined, [t |-> "object", ContentType |-> req.contentType], Bool(TRUE)))
uploadScriptAudio(audioFile) ==
    request("POST", <<"/scriptAudio">>, audioFile,
            Options(Undefined, [t |-> "object", ContentType |-> Str("audio/mpeg")], Bool(TRUE)))
uploadImage(imageFile, contentType) ==
    uploadAsset([t |-> "object", file |-> imageFile, contentType |-> contentType])
uploadVideo(videoFile, contentType) ==
    uploadAsset([t |-> "object", file |-> videoFile, contentType |-> contentType])

\* The arguments callers pass.
Ids == {Str("id-1")}
Payload == [t |-> "object", title |-> Str("My video")]
FileBody == Str("<binary>")
ContentTypes == {Str("image/png"), Str("video/mp4")}
ListRequests ==
    {Undefined,
     [t |-> "object", limit |-> Num(10), source |-> Str("workspace"), offset |-> Num(0)],
     [t |-> "object", deleted |-> Bool(FALSE), offset |-> Num(20)]}
TemplateOptions ==
    {Undefined,
     [t |-> "object", title |-> Str("Welcome"), visibility |-> Str("public")],
     [t |-> "object", test |-> Bool(TRUE)],
     [t |-> "object", title |-> Str("")],
     [t |-> "object", visibility |-> Undefined, callbackId |-> Str("cb-1")],
     [t |-> "object", templateId |-> Str("tpl-other"), templateData |-> Null]}

\* Every façade call: the API object it is made on, the method, the arguments
\* of the caller and the HTTP request the method hands to axios.
FacadeCall(api, op, args, req) == [request |-> req, api |-> api, op |-> op, args |-> args]

VideosCalls ==
    {FacadeCall("videos", "createVideo", <<Payload>>, createVideo(Payload)),
     FacadeCall("videos", "uploadXLIFFTranslation", <<Payload>>, uploadXLIFFTranslation(Payload))}
    \cup {FacadeCall("videos", "listVideos", <<r>>, listVideos(r)) : r \in ListRequests}
    \cup {FacadeCall("videos", "getVideo", <<i>>, getVideo(i)) : i \in Ids}
    \cup {FacadeCall("videos", "updateVideo", <<i, Payload>>, updateVideo(i, Payload)) : i \in Ids}
    \cup {FacadeCall("videos", "deleteVideo", <<i>>, deleteVideo(i)) : i \in Ids}
    \cup {FacadeCall("videos", "createVideoFromTemplate", <<i, Payload, o>>,
                     createVideoFromTemplate(i, Payload, o)) : i \in Ids, o \in TemplateOptions}
    \cup {FacadeCall("videos", "getVideoXLIFF", <<i, Undefined>>, getVideoXLIFF(i, Undefined)) :
            i \in Ids}

TemplatesCalls ==
    {FacadeCall("templates", "getSynthesiaTemplates", <<>>, getSynthesiaTemplates),
     FacadeCall("templates", "getWorkspaceTemplates", <<>>, getWorkspaceTemplates)}
    \cup {FacadeCall("templates", "listTemplates", <<r>>, listTemplates(r)) : r \in ListRequests}
    \cup {FacadeCall("templates", "getTemplate", <<i>>, getTemplate(i)) : i \in Ids}

WebhooksCalls ==
    {FacadeCall("webhooks", "createWebhook", <<Payload>>, createWebhook(Payload))}
    \cup {FacadeCall("webhooks", "listWebhooks", <<r>>, listWebhooks(r)) : r \in ListRequests}
    \cup {FacadeCall("webhooks", "getWebhook", <<i>>, getWebhook(i)) : i \in Ids}
    \cup {FacadeCall("webhooks", "deleteWebhook", <<i>>, deleteWebhook(i)) : i \in Ids}
    \cup {FacadeCall("webhooks", "updateWebhook", <<i, Payload>>, updateWebhook(i, Payload)) :
            i \in Ids}

UploadsCalls ==
    {FacadeCall("uploads", "uploadScriptAudio", <<FileBody>>, uploadScriptAudio(FileBody))}
    \cup {FacadeCall("uploads", "uploadAsset",
                     <<[t |-> "object", file |-> FileBody, contentType |-> c]>>,
                     uploadAsset([t |-> "object", file |-> FileBody, contentType |-> c])) :
            c \in ContentTypes}
    \cup {FacadeCall("uploads", "uploadImage", <<FileBody, c>>, uploadImage(FileBody, c)) :
            c \in ContentTypes}
    \cup {FacadeCall("uploads", "uploadVideo", <<FileBody, c>>, uploadVideo(FileBody, c)) :
            c \in ContentTypes}

FacadeCalls == VideosCalls \cup TemplatesCalls \cup WebhooksCalls \cup UploadsCalls

\* uploadAsset and uploadScriptAudio (and uploadImage, uploadVideo through uploadAsset)
\* await this.request inside their own try/catch; the other methods return its promise.
HasOwnCatch(op) == op \in {"uploadAsset", "uploadScriptAudio", "uploadImage", "uploadVideo"}

\* The promise a façade method returns, given the promise request returned.
facadeReturn(op, promise) ==
    IF HasOwnCatch(op) /\ promise.state = "rejected"
    THEN Fulfilled(APIResponse(Undefined, promise.value))
    ELSE promise

\* Synthesia.getRateLimitInfo(): the snapshot of the videos API object.
SynthesiaGetRateLimitInfo == rateLimitInfo["videos"]

\* SynthesiaClient.getRateLimitInfo() of one API object.
getRateLimitInfo(api) == rateLimitInfo[api]

---------------------------------------------------------------------------
(* One façade call at a time on a Synthesia instance *)

NoCall ==
    [request |-> Undefined, promise |-> Pending, outcome |-> Undefined, api |-> "none",
     op |-> "none", args |-> <<>>, pc |-> "idle", returned |-> Pending]

\* A header that is sent with a value.
HasValue(h) == h # Undefined /\ h.v # <<>>

\* The response brought all three rate-limit headers.
CarriesAll(outcome) ==
    /\ outcome # NoResponse
    /\ HasValue(outcome.headers.limit)
    /\ HasValue(outcome.headers.remaining)
    /\ HasValue(outcome.headers.reset)

\* new Synthesia(c): the four API objects are constructed with the same config.
InitClientOf(c) ==
    /\ config = constructor(c)
    /\ rateLimitInfo = [a \in Apis |-> Undefined]
    /\ call = NoCall
    /\ sent = 0
    /\ lastCarrying = [a \in Apis |-> Undefined]
    /\ lastCarryingAny = Undefined
    /\ inflight = {}
    /\ arrivals = <<>>

InitClient == InitClientOf([t |-> "object", apiKey |-> ApiKey])

\* The caller invokes a façade method: the method builds its request and
\* request() hands it to axios (client.request), then awaits.
Call(fc) ==
    /\ call.pc = "idle"
    /\ call' = [NoCall EXCEPT !.pc = "awaiting", !.api = fc.api, !.op = fc.op,
                              !.args = fc.args, !.request = fc.request]
    /\ sent' = sent + 1
    /\ UNCHANGED <<config, rateLimitInfo, lastCarrying, lastCarryingAny, pollVars, utilVars,
                   flightVars>>

\* The transport settles the request: the interceptor of the API object runs, request
\* resumes after its await and the façade method returns.
Deliver(outcome) ==
    /\ call.pc = "awaiting"
    /\ LET r == Intercept(rateLimitInfo[call.api], outcome)
       IN  /\ rateLimitInfo' = [rateLimitInfo EXCEPT ![call.api] = r.rateLimitInfo]
           /\ call' = [call EXCEPT !.pc = "returned", !.op = "none", !.args = <<>>,
                                   !.request = Undefined,
                                   !.outcome = outcome, !.promise = r.promise,
                                   !.returned = facadeReturn(call.op, requestReturn(r.promise))]
    /\ lastCarrying' = IF CarriesAll(outcome)
                       THEN [lastCarrying EXCEPT ![call.api] = outcome.headers]
                       ELSE lastCarrying
    /\ lastCarryingAny' = IF CarriesAll(outcome) THEN outcome.headers ELSE lastCarryingAny
    /\ UNCHANGED <<config, sent, pollVars, utilVars, flightVars>>

\* The caller has its result; the next call can start.
Return ==
    /\ call.pc = "returned"
    /\ call' = NoCall
    /\ sent' = 0
    /\ UNCHANGED <<config, rateLimitInfo, lastCarrying, lastCarryingAny, pollVars, utilVars,
                   flightVars>>

---------------------------------------------------------------------------
(* Several requests in flight on one API object *)

\* The bound on the number of concurrent requests, and the responses they get.
MaxInFlight == 3
ConcurrentOutcomes ==
    {AxiosResponse(200, ResourceBody, HdrA), AxiosResponse(200, ResourceBody, HdrB),
     AxiosResponse(200, ResourceBody, HdrNone), AxiosResponse(200, ResourceBody, HdrJunk),
     AxiosResponse(429, ErrFull, HdrPartial)}

\* A caller invokes a method of synthesia.videos without awaiting the earlier
\* ones: request() hands the HTTP request to axios and suspends at its await.
Issue ==
    /\ call.pc = "idle"
    /\ sent < MaxInFlight
    /\ sent' = sent + 1
    /\ inflight' = inflight \cup {sent + 1}
    /\ UNCHANGED <<config, rateLimitInfo, call, lastCarrying, lastCarryingAny, arrivals,
                   pollVars, utilVars>>

\* The transport settles any one of the requests in flight, whatever the order
\* of issue: the interceptor runs to completion, then request resumes and returns.
Settle(id, outcome) ==
    /\ id \in inflight
    /\ LET r == Intercept(rateLimitInfo["videos"], outcome)
       IN  /\ rateLimitInfo' = [rateLimitInfo EXCEPT !["videos"] = r.rateLimitInfo]
           /\ arrivals' = Append(arrivals, [id |-> id, outcome |-> outcome,
                                            returned |-> requestReturn(r.promise)])
    /\ inflight' = inflight \ {id}
    /\ lastCarrying' = IF CarriesAll(outcome)
                       THEN [lastCarrying EXCEPT !["videos"] = outcome.headers]
                       ELSE lastCarrying
    /\ lastCarryingAny' = IF CarriesAll(outcome) THEN outcome.headers ELSE lastCarryingAny
    /\ UNCHANGED <<config, call, sent, pollVars, utilVars>>

---------------------------------------------------------------------------
(* SynthesiaUtils.pollVideoStatus *)

DefaultMaxAttempts == 60
DefaultIntervalMs == 10000

\* A destructuring default: `{ f = d } = options`.
Default(v, d) == IF v = Undefined THEN d ELSE v

\* What getVideo can resolve to.
StatusResult(status) ==
    APIResponse([t |-> "object", status |-> Str(status)], Undefined)
NoDataResults ==
    {APIResponse(Undefined, Undefined),
     APIResponse(Undefined, [t |-> "object", message |-> Str("Not found"), statusCode |-> Num(404)]),
     APIResponse(Null, Undefined)}
VideoStatuses == {"in_progress", "complete", "failed", "error"}
FetchResults == NoDataResults \cup {StatusResult(st) : st \in VideoStatuses}

\* Faulty variant: only 'complete' ends the loop.
IsTerminalOnlyComplete(status) == status = Str("complete")

\* status === 'complete' || status === 'failed'
IsTerminal(status) == status = Str("complete") \/ status = Str("failed")

\* The bounds of the polling inputs.
MaxAttemptsBound == 3
CustomIntervalMs == 5

NoPoll ==
    [outcome |-> Pending, pc |-> "idle", attempt |-> 0, maxAttempts |-> 0,
     intervalMs |-> 0, onStatusUpdate |-> FALSE, fetches |-> 0]

\* pollVideoStatus(getVideo, videoId, options) up to the loop: the options are destructured.
pollVideoStatus(options) ==
    [NoPoll EXCEPT !.pc = "loop", !.attempt = 0,
                   !.maxAttempts = Default(options.maxAttempts, Num(DefaultMaxAttempts)).v,
                   !.intervalMs = Default(options.intervalMs, Num(DefaultIntervalMs)).v,
                   !.onStatusUpdate = Truthy(options.onStatusUpdate)]

PollOptions ==
    {[t |-> "object", maxAttempts |-> Num(m), intervalMs |-> i, onStatusUpdate |-> cb] :
        m \in 0..MaxAttemptsBound, i \in {Undefined, Num(CustomIntervalMs)},
        cb \in {Undefined, [t |-> "function"]}}

InitPollIdle ==
    /\ poll = NoPoll
    /\ fetchLog = <<>>
    /\ sleepLog = <<>>
    /\ statusLog = <<>>
    /\ eventLog = <<>>

\* The options with a maxAttempts that allows no attempt at all.
NoAttemptOptions ==
    {[t |-> "object", maxAttempts |-> Num(m), intervalMs |-> i, onStatusUpdate |-> cb] :
        m \in (0 - MaxAttemptsBound)..0, i \in {Undefined, Num(CustomIntervalMs)},
        cb \in {Undefined, [t |-> "function"]}}

\* pollVideoStatus called with any of the options, those allowing no attempt included.
InitPollAny ==
    /\ poll \in {pollVideoStatus(o) : o \in PollOptions \cup NoAttemptOptions}
    /\ fetchLog = <<>>
    /\ sleepLog = <<>>
    /\ statusLog = <<>>
    /\ eventLog = <<>>

InitPoll ==
    /\ poll \in {pollVideoStatus(o) : o \in PollOptions}
    /\ fetchLog = <<>>
    /\ sleepLog = <<>>
    /\ statusLog = <<>>
    /\ eventLog = <<>>

\* Faulty variant: the loop runs once more.
loopConditionInclusive(p) == p.attempt <= p.maxAttempts

\* attempt < maxAttempts
loopCondition(p) == p.attempt < p.maxAttempts

\* The loop condition holds: getVideo(videoId) is invoked and awaited.
PollFetch ==
    /\ poll.pc = "loop"
    /\ loopCondition(poll)
    /\ poll' = [poll EXCEPT !.pc = "fetching", !.fetches = @ + 1]
    /\ UNCHANGED <<fetchLog, sleepLog, statusLog, eventLog, clientVars, utilVars>>

\* The loop condition fails: the statement after the loop throws.
PollTimeout ==
    /\ poll.pc = "loop"
    /\ ~loopCondition(poll)
    /\ poll' = [poll EXCEPT !.pc = "done",
                            !.outcome = Rejected(Str("Video processing timed out"))]
    /\ UNCHANGED <<fetchLog, sleepLog, statusLog, eventLog, clientVars, utilVars>>

\* What the loop body does to its surroundings, in program order.
StatusUpdate(status) == [kind |-> "onStatusUpdate", arg |-> status]
Sleep(ms) == [kind |-> "sleep", arg |-> ms]
GetVideoResult(result) == [kind |-> "getVideo", arg |-> result]

\* Faulty variant: a result without data is treated as a status still in progress.
loopBodyNoFailFast(p, result) ==
    LET status == IF Truthy(result.data) THEN result.data.status ELSE Undefined
        updates == IF p.onStatusUpdate THEN <<status>> ELSE <<>>
    IN  IF IsTerminal(status)
        THEN [poll |-> [p EXCEPT !.pc = "done", !.outcome = Fulfilled(status)],
              updates |-> updates, sleeps |-> <<>>,
              events |-> [i \in 1..Len(updates) |-> StatusUpdate(updates[i])]]
        ELSE IF p.attempt < p.maxAttempts - 1
        THEN [poll |-> [p EXCEPT !.pc = "sleeping"],
              updates |-> updates, sleeps |-> <<p.intervalMs>>,
              events |-> [i \in 1..Len(updates) |-> StatusUpdate(updates[i])]
                         \o <<Sleep(p.intervalMs)>>]
        ELSE [poll |-> [p EXCEPT !.pc = "loop", !.attempt = @ + 1],
              updates |-> updates, sleeps |-> <<>>,
              events |-> [i \in 1..Len(updates) |-> StatusUpdate(updates[i])]]

\* Faulty variant: the loop sleeps after its last attempt too.
loopBodySleepsAlways(p, result) ==
    IF ~Truthy(result.data)
    THEN [poll |-> [p EXCEPT !.pc = "done",
                             !.outcome = Rejected(Str("Failed to get video status"))],
          updates |-> <<>>, sleeps |-> <<>>, events |-> <<>>]
    ELSE LET status == result.data.status
             updates == IF p.onStatusUpdate THEN <<status>> ELSE <<>>
             called == [i \in 1..Len(updates) |-> StatusUpdate(updates[i])]
         IN  IF IsTerminal(status)
             THEN [poll |-> [p EXCEPT !.pc = "done", !.outcome = Fulfilled(status)],
                   updates |-> updates, sleeps |-> <<>>, events |-> called]
             ELSE [poll |-> [p EXCEPT !.pc = "sleeping"],
                   updates |-> updates, sleeps |-> <<p.intervalMs>>,
                   events |-> called \o <<Sleep(p.intervalMs)>>]

\* Faulty variant: the status of the last attempt is not reported.
loopBodyNoLastUpdate(p, result) ==
    IF ~Truthy(result.data)
    THEN [poll |-> [p EXCEPT !.pc = "done",
                             !.outcome = Rejected(Str("Failed to get video status"))],
          updates |-> <<>>, sleeps |-> <<>>, events |-> <<>>]
    ELSE LET status == result.data.status
             updates == IF p.onStatusUpdate THEN <<status>> ELSE <<>>
             called == [i \in 1..Len(updates) |-> StatusUpdate(updates[i])]
         IN  IF IsTerminal(status)
             THEN [poll |-> [p EXCEPT !.pc = "done", !.outcome = Fulfilled(status)],
                   updates |-> updates, sleeps |-> <<>>, events |-> called]
             ELSE IF p.attempt < p.maxAttempts - 1
             THEN [poll |-> [p EXCEPT !.pc = "sleeping"],
                   updates |-> updates, sleeps |-> <<p.intervalMs>>,
                   events |-> called \o <<Sleep(p.intervalMs)>>]
             ELSE [poll |-> [p EXCEPT !.pc = "loop", !.attempt = @ + 1],
                   updates |-> <<>>, sleeps |-> <<>>, events |-> <<>>]

\* Faulty variant: onStatusUpdate is called after the terminal check and the sleep.
loopBodyUpdateLast(p, result) ==
    IF ~Truthy(result.data)
    THEN [poll |-> [p EXCEPT !.pc = "done",
                             !.outcome = Rejected(Str("Failed to get video status"))],
          updates |-> <<>>, sleeps |-> <<>>, events |-> <<>>]
    ELSE LET status == result.data.status
             updates == IF p.onStatusUpdate THEN <<status>> ELSE <<>>
             called == [i \in 1..Len(updates) |-> StatusUpdate(updates[i])]
         IN  IF IsTerminal(status)
             THEN [poll |-> [p EXCEPT !.pc = "done", !.outcome = Fulfilled(status)],
                   updates |-> <<>>, sleeps |-> <<>>, events |-> <<>>]
             ELSE IF p.attempt < p.maxAttempts - 1
             THEN [poll |-> [p EXCEPT !.pc = "sleeping"],
                   updates |-> updates, sleeps |-> <<p.intervalMs>>,
                   events |-> <<Sleep(p.intervalMs)>> \o called]
             ELSE [poll |-> [p EXCEPT !.pc = "loop", !.attempt = @ + 1],
                   updates |-> updates, sleeps |-> <<>>, events |-> called]

\* The loop body after `await getVideo(videoId)`, up to its next await, return or throw:
\* poll is the position reached; updates and sleeps are what was passed to
\* onStatusUpdate and to sleep; events is the two in program order.
loopBody(p, result) ==
    IF ~Truthy(result.data)
    THEN [poll |-> [p EXCEPT !.pc = "done",
                             !.outcome = Rejected(Str("Failed to get video status"))],
          updates |-> <<>>, sleeps |-> <<>>, events |-> <<>>]
    ELSE LET status == result.data.status
             updates == IF p.onStatusUpdate THEN <<status>> ELSE <<>>
             called == [i \in 1..Len(updates) |-> StatusUpdate(updates[i])]
         IN  IF IsTerminal(status)
             THEN [poll |-> [p EXCEPT !.pc = "done", !.outcome = Fulfilled(status)],
                   updates |-> updates, sleeps |-> <<>>, events |-> called]
             ELSE IF p.attempt < p.maxAttempts - 1
             THEN [poll |-> [p EXCEPT !.pc = "sleeping"],
                   updates |-> updates, sleeps |-> <<p.intervalMs>>,
                   events |-> called \o <<Sleep(p.intervalMs)>>]
             ELSE [poll |-> [p EXCEPT !.pc = "loop", !.attempt = @ + 1],
                   updates |-> updates, sleeps |-> <<>>, events |-> called]

\* getVideo resolves and the loop body runs on.
PollResult(result) ==
    /\ poll.pc = "fetching"
    /\ LET n == loopBody(poll, result)
       IN  /\ poll' = n.poll
           /\ statusLog' = statusLog \o n.updates
           /\ sleepLog' = sleepLog \o n.sleeps
           /\ eventLog' = Append(eventLog, GetVideoResult(result)) \o n.events
    /\ fetchLog' = Append(fetchLog, result)
    /\ UNCHANGED <<clientVars, utilVars>>

\* The sleep timer fires: attempt++ and back to the loop condition.
PollWake ==
    /\ poll.pc = "sleeping"
    /\ poll' = [poll EXCEPT !.pc = "loop", !.attempt = @ + 1]
    /\ UNCHANGED <<fetchLog, sleepLog, statusLog, eventLog, clientVars, utilVars>>

---------------------------------------------------------------------------
(* SynthesiaUtils: the synchronous helpers, and SynthesiaSDKError *)

\* How a synchronous function call completes.
Returns(v) == [value |-> v, completion |-> "return"]
Throws(e) == [value |-> e, completion |-> "throw"]

\* A string the code builds or compares piece by piece: a sequence of literal
\* pieces and digests.
Lit(s) == [s |-> s, p |-> "lit"]
Text(pieces) == [t |-> "text", v |-> pieces]

\* crypto.createHmac('sha256', secret).update(payload).digest('hex'): 64 lowercase
\* hexadecimal digits, modelled as a term over key and message, so that digests
\* are equal exactly when key and message are.  createHmac throws a TypeError
\* when the key is not a string, update when the message is not.
HmacSha256Hex(secret, payload) == [hex |-> "lower", p |-> "hmac-sha256", key |-> secret, msg |-> payload]
HmacThrows(secret, payload) == secret.t # "string" \/ payload.t # "string"

\* Faulty variant: the digest is compared without the "sha256=" prefix.
validateWebhookSignatureBareDigest(payload, signature, secret) ==
    IF HmacThrows(secret, payload) THEN Throws(Str("TypeError"))
    ELSE LET expectedSignature == HmacSha256Hex(secret, payload)
         IN  Returns(Bool(Text(<<expectedSignature>>) = signature))

\* validateWebhookSignature(payload, signature, secret)
validateWebhookSignature(payload, signature, secret) ==
    IF HmacThrows(secret, payload) THEN Throws(Str("TypeError"))
    ELSE LET expectedSignature == HmacSha256Hex(secret, payload)
         IN  Returns(Bool(Text(<<Lit("sha256="), expectedSignature>>) = signature))

\* isValidWebhookEvent(event): validEvents.includes(event)
validEvents == {Str("video.completed"), Str("video.failed")}
isValidWebhookEvent(event) == Returns(Bool(event \in validEvents))

\* isRateLimited(error), isAuthenticationError(error), isValidationError(error)
isRateLimited(error) == Returns(Bool(Get(error, "statusCode") = Num(429)))

\* Faulty variant: only 401 is an authentication error.
isAuthenticationErrorOnly401(error) == Returns(Bool(Get(error, "statusCode") = Num(401)))

isAuthenticationError(error) ==
    Returns(Bool(Get(error, "statusCode") = Num(401) \/ Get(error, "statusCode") = Num(403)))
isValidationError(error) == Returns(Bool(Get(error, "statusCode") = Num(400)))

\* Math.pow(base, exponent) for a non-negative integer exponent.
RECURSIVE MathPow(_, _)
MathPow(base, exponent) == IF exponent = 0 THEN 1 ELSE base * MathPow(base, exponent - 1)

DefaultBaseDelay == 1000

\* Faulty variant: the delay is capped at 30 seconds.
calculateRetryDelayCapped(attempt, baseDelay) ==
    LET d == Default(baseDelay, Num(DefaultBaseDelay)).v * MathPow(2, attempt.v)
    IN  Returns(Num(IF d > 30000 THEN 30000 ELSE d))

\* calculateRetryDelay(attempt, baseDelay = 1000)
calculateRetryDelay(attempt, baseDelay) ==
    Returns(Num(Default(baseDelay, Num(DefaultBaseDelay)).v * MathPow(2, attempt.v)))

\* new SynthesiaSDKError(error), and the constructors of its subclasses.
SynthesiaSDKError(error) ==
    [t |-> "object", message |-> Get(error, "message"), code |-> Get(error, "code"),
     details |-> Get(error, "details"), statusCode |-> Get(error, "statusCode"),
     class |-> "SynthesiaSDKError", name |-> Str("SynthesiaSDKError")]
SynthesiaErrorOf(message, statusCode, code, details) ==
    [t |-> "object", message |-> message, code |-> Str(code), details |-> details,
     statusCode |-> Num(statusCode)]
ValidationError(message, details) ==
    [SynthesiaSDKError(SynthesiaErrorOf(message, 400, "VALIDATION_ERROR", details))
        EXCEPT !.class = "ValidationError", !.name = Str("ValidationError")]
AuthenticationError(message) ==
    [SynthesiaSDKError(SynthesiaErrorOf(Default(message, Str("Authentication failed")), 401,
                                        "AUTHENTICATION_ERROR", Undefined))
        EXCEPT !.class = "AuthenticationError", !.name = Str("AuthenticationError")]
RateLimitError(message, retryAfter) ==
    [k \in {"retryAfter"} \cup DOMAIN SynthesiaSDKError(Undefined) |->
        IF k = "retryAfter" THEN retryAfter
        ELSE [SynthesiaSDKError(SynthesiaErrorOf(Default(message, Str("Rate limit exceeded")), 429,
                                                 "RATE_LIMIT_ERROR", Undefined))
                 EXCEPT !.class = "RateLimitError", !.name = Str("RateLimitError")][k]]
NotFoundError(resource, id) ==
    [SynthesiaSDKError(SynthesiaErrorOf(Text(<<resource, Lit(" with ID '"), id, Lit("' not found")>>),
                                        404, "NOT_FOUND", Undefined))
        EXCEPT !.class = "NotFoundError", !.name = Str("NotFoundError")]
ServerError(message) ==
    [SynthesiaSDKError(SynthesiaErrorOf(Default(message, Str("Internal server error")), 500,
                                        "SERVER_ERROR", Undefined))
        EXCEPT !.class = "ServerError", !.name = Str("ServerError")]

\* SynthesiaSDKError.fromResponse(error)
fromResponse(error) == Returns(SynthesiaSDKError(error))

\* The `extends` clauses, and `object instanceof class`.
Superclass(class) == IF class = "SynthesiaSDKError" THEN "Error" ELSE "SynthesiaSDKError"
InstanceOf(object, class) ==
    \/ object.class = class
    \/ object.class # "Error" /\ Superclass(object.class) = class
    \/ object.class # "Error" /\ class = "Error"

\* Faulty variant: a status of exactly 500 is not a server error.
SDKError_isServerErrorAbove500(self) ==
    Returns(Bool(self.statusCode.t = "number" /\ self.statusCode.v > 500))

\* The instance methods of SynthesiaSDKError: isRateLimited(), isAuthenticationError(),
\* isValidationError(), isNotFound(), isServerError().
SDKError_isRateLimited(self) == Returns(Bool(self.statusCode = Num(429)))
SDKError_isAuthenticationError(self) ==
    Returns(Bool(self.statusCode = Num(401) \/ self.statusCode = Num(403)))
SDKError_isValidationError(self) == Returns(Bool(self.statusCode = Num(400)))
SDKError_isNotFound(self) == Returns(Bool(self.statusCode = Num(404)))
SDKError_isServerError(self) ==
    Returns(Bool(self.statusCode.t = "number" /\ self.statusCode.v >= 500))

\* `if (result.error) throw SynthesiaSDKError.fromResponse(result.error)`: the error
\* made of the result of a request that the transport settled with outcome.
FailedOutcomes == {o \in Outcomes : o = NoResponse \/ ~ValidateStatus(o.status.v)}
ErrorOfOutcome(outcome) ==
    fromResponse(requestReturn(Intercept(Undefined, outcome).promise).value.error).value

\* The arguments callers pass.
MaxRetryAttempt == 6
RetryAttempts == {Num(n) : n \in 0..MaxRetryAttempt}
BaseDelays == {Undefined, Num(0), Num(1), Num(500), Num(1000)}
WebhookPayloads == {Str("{\"event\":\"video.complete\"}"), Str("{\"event\":\"video.failed\"}"), Str("")}
Secrets == {Str("test-secret"), Str("other-secret"), Undefined}
Digests == {HmacSha256Hex(sec, pl) : sec \in Secrets \ {Undefined}, pl \in WebhookPayloads}
Signatures ==
    {Text(<<Lit("sha256="), d>>) : d \in Digests}
    \cup {Text(<<d>>) : d \in Digests}
    \cup {Text(<<Lit("sha1="), d>>) : d \in Digests}
    \cup {Text(<<Lit("sha256="), [d EXCEPT !.hex = "upper"]>>) : d \in Digests}
    \cup {Text(<<Lit("sha256="), Lit("invalid-signature")>>), Text(<<Lit("sha256=")>>),
          Text(<<>>), Undefined}
WebhookEvents ==
    {Str("video.created"), Str("video.complete"), Str("video.completed"), Str("video.failed"),
     Str("invalid.event"), Str("video.unknown"), Str("")}
ErrorStatusCodes == {400, 401, 403, 404, 422, 429, 500, 502, 503}
SynthesiaErrors ==
    {[t |-> "object", message |-> Str("Request failed"), statusCode |-> Num(c)] :
        c \in ErrorStatusCodes}
    \cup {[t |-> "object", message |-> Str("Rate limited"), code |-> Str("rate_limit"),
           details |-> [t |-> "object", retryAfter |-> Num(30)], statusCode |-> Num(429)]}

NoUtil == [op |-> "none", args |-> <<>>, result |-> Returns(Undefined)]

InitUtil == util = NoUtil

\* One synchronous call: op(args) completes with result.
UtilCall(op, args, result) ==
    /\ util' = [op |-> op, args |-> args, result |-> result]
    /\ UNCHANGED <<clientVars, pollVars>>

ValidateWebhookSignature ==
    \E payload \in WebhookPayloads, signature \in Signatures, secret \in Secrets :
        UtilCall("validateWebhookSignature", <<payload, signature, secret>>,
                 validateWebhookSignature(payload, signature, secret))

IsValidWebhookEvent ==
    \E event \in WebhookEvents :
        UtilCall("isValidWebhookEvent", <<event>>, isValidWebhookEvent(event))

IsRateLimited ==
    \E error \in SynthesiaErrors : UtilCall("isRateLimited", <<error>>, isRateLimited(error))

IsAuthenticationError ==
    \E error \in SynthesiaErrors :
        UtilCall("isAuthenticationError", <<error>>, isAuthenticationError(error))

IsValidationError ==
    \E error \in SynthesiaErrors :
        UtilCall("isValidationError", <<error>>, isValidationError(error))

CalculateRetryDelay ==
    \E attempt \in RetryAttempts, baseDelay \in BaseDelays :
        UtilCall("calculateRetryDelay", <<attempt, baseDelay>>,
                 calculateRetryDelay(attempt, baseDelay))

FromResponse ==
    \E error \in SynthesiaErrors : UtilCall("fromResponse", <<error>>, fromResponse(error))

\* new ValidationError(...), new AuthenticationError(...) and the other subclasses.
NewError ==
    \E e \in {ValidationError(Str("Invalid title"), Undefined),
              AuthenticationError(Undefined), AuthenticationError(Str("Bad key")),
              RateLimitError(Undefined, Num(30)), NotFoundError(Lit("Video"), Lit("id-1")),
              ServerError(Undefined)} :
        UtilCall("new", <<Str(e.class)>>, Returns(e))

\* A method of the error made of a failed result is called.
ErrorIsRateLimited ==
    \E outcome \in FailedOutcomes :
        UtilCall("SynthesiaSDKError.isRateLimited", <<outcome, ErrorOfOutcome(outcome)>>,
                 SDKError_isRateLimited(ErrorOfOutcome(outcome)))

ErrorIsAuthenticationError ==
    \E outcome \in FailedOutcomes :
        UtilCall("SynthesiaSDKError.isAuthenticationError", <<outcome, ErrorOfOutcome(outcome)>>,
                 SDKError_isAuthenticationError(ErrorOfOutcome(outcome)))

ErrorIsValidationError ==
    \E outcome \in FailedOutcomes :
        UtilCall("SynthesiaSDKError.isValidationError", <<outcome, ErrorOfOutcome(outcome)>>,
                 SDKError_isValidationError(ErrorOfOutcome(outcome)))

ErrorIsNotFound ==
    \E outcome \in FailedOutcomes :
        UtilCall("SynthesiaSDKError.isNotFound", <<outcome, ErrorOfOutcome(outcome)>>,
                 SDKError_isNotFound(ErrorOfOutcome(outcome)))

ErrorIsServerError ==
    \E outcome \in FailedOutcomes :
        UtilCall("SynthesiaSDKError.isServerError", <<outcome, ErrorOfOutcome(outcome)>>,
                 SDKError_isServerError(ErrorOfOutcome(outcome)))

---------------------------------------------------------------------------
(* Specifications *)

Init == InitClient /\ InitPollIdle /\ InitUtil

Next ==
    \/ \E fc \in FacadeCalls : Call(fc)
    \/ \E outcome \in Outcomes : Deliver(outcome)
    \/ Return

Spec == Init /\ [][Next]_vars

InitPolling == InitClient /\ InitPoll /\ InitUtil

NextPoll ==
    \/ PollFetch
    \/ PollTimeout
    \/ \E result \in FetchResults : PollResult(result)
    \/ PollWake

SpecPoll == InitPolling /\ [][NextPoll]_vars

\* The requests of a client constructed with any of the configurations.
RequestOutcomes ==
    {NoResponse, AxiosResponse(200, ResourceBody, HdrA), AxiosResponse(401, ErrFull, HdrNone),
     AxiosResponse(204, Null, HdrNone)}

InitRequests == (\E c \in Configs : InitClientOf(c)) /\ InitPollIdle /\ InitUtil

NextRequests ==
    \/ \E fc \in FacadeCalls : Call(fc)
    \/ \E outcome \in RequestOutcomes : Deliver(outcome)
    \/ Return

SpecRequests == InitRequests /\ [][NextRequests]_vars

\* The polling loop when every await resumes: each getVideo call resolves and
\* each sleep timer fires, after which the event loop runs the continuation, and
\* the synchronous code between two awaits runs to its end.
InitPollingAny == InitClient /\ InitPollAny /\ InitUtil

FairSpecPoll == InitPollingAny /\ [][NextPoll]_vars /\ WF_vars(NextPoll)

\* Requests issued without awaiting one another, settled in any order.
NextConcurrent ==
    \/ Issue
    \/ \E id \in 1..MaxInFlight, outcome \in ConcurrentOutcomes : Settle(id, outcome)

SpecConcurrent == Init /\ [][NextConcurrent]_vars

\* The synchronous helpers, called with any of the arguments.
InitUtils == InitClient /\ InitPollIdle /\ InitUtil

NextUtils ==
    \/ ValidateWebhookSignature
    \/ IsValidWebhookEvent
    \/ IsRateLimited
    \/ IsAuthenticationError
    \/ IsValidationError
    \/ CalculateRetryDelay
    \/ FromResponse
    \/ NewError
    \/ ErrorIsRateLimited
    \/ ErrorIsAuthenticationError
    \/ ErrorIsValidationError
    \/ ErrorIsNotFound
    \/ ErrorIsServerError

SpecUtils == InitUtils /\ [][NextUtils]_vars

---------------------------------------------------------------------------
(* Vocabulary of the properties *)

\* The APIResponse the caller of the finished call holds.
Result == call.returned.value

\* The transport call succeeded: a response with a 2xx status.
Succeeded(outcome) ==
    outcome # NoResponse /\ outcome.status.v \in 200..299

\* The generic transport error message of a failed call.
TransportMessage(outcome) ==
    IF outcome = NoResponse THEN NetworkMessage ELSE StatusMessage

\* cs is a decimal numeral, and the integer it denotes.
IsNumeral(cs) ==
    cs # <<>> /\ \A i \in 1..Len(cs) : \E d \in 0..9 : DecDigits[d + 1] = cs[i]

RECURSIVE NumeralValue(_)
NumeralValue(cs) ==
    IF cs = <<>> THEN 0
    ELSE 10 * NumeralValue(SubSeq(cs, 1, Len(cs) - 1))
         + (CHOOSE d \in 0..9 : DecDigits[d + 1] = cs[Len(cs)])

\* The headers give limit and remaining as numerals.
Numeric(headers) == IsNumeral(headers.limit.v) /\ IsNumeral(headers.remaining.v)

\* {limit: L, remaining: R, resetAt: T} for headers limit=L, remaining=R, reset=T.
SnapshotOf(headers) ==
    RateLimitInfo(Num(NumeralValue(headers.limit.v)), Num(NumeralValue(headers.remaining.v)),
                  headers.reset)

---------------------------------------------------------------------------
(* C1 *)

\* C1 as stated: the result of every call has exactly one of data / error populated: data
\* and no error after a 2xx response, error and no data after a failed call.
C1_ExactlyOnePopulated ==
    call.pc = "returned" =>
        IF Succeeded(call.outcome)
        THEN Populated(Get(Result, "data")) /\ Get(Result, "error") = Undefined
        ELSE Populated(Get(Result, "error")) /\ Get(Result, "data") = Undefined

\* C1, amended: error is populated exactly when the call failed, and data is then
\* undefined; after a 2xx response error is undefined and data is the response body,
\* which is populated unless the body is empty (null); data and error are never both
\* populated.
C1_ErrorIffFailed ==
    call.pc = "returned" =>
        /\ IF Succeeded(call.outcome)
           THEN Get(Result, "error") = Undefined /\ Get(Result, "data") = call.outcome.data
           ELSE Populated(Get(Result, "error")) /\ Get(Result, "data") = Undefined
        /\ ~(Populated(Get(Result, "data")) /\ Populated(Get(Result, "error")))

\* A 2xx response with an empty body has returned: neither data nor error is populated.
C1_Witness ==
    /\ call.pc = "returned"
    /\ Succeeded(call.outcome)
    /\ call.outcome.data = Null
    /\ Result = APIResponse(Null, Undefined)

---------------------------------------------------------------------------
(* C2 *)

\* C2: no façade call rejects; whatever the transport does (2xx, another status, no
\* response), the promise the caller holds resolves to a result value.
C2_NeverRejects ==
    call.pc = "returned" =>
        /\ call.returned.state = "fulfilled"
        /\ Get(Result, "t") = "object"

\* A call on a façade without a try/catch of its own has returned after a network failure.
C2_Witness ==
    /\ call.pc = "returned"
    /\ call.api = "videos"
    /\ call.outcome = NoResponse
    /\ call.promise.state = "rejected"
    /\ call.returned.state = "fulfilled"

---------------------------------------------------------------------------
(* C3 *)

\* C3: the statusCode of the error of a failed call is the HTTP status of the response
\* when there was one, and 500 when there was none.
C3_StatusCode ==
    (call.pc = "returned" /\ ~Succeeded(call.outcome)) =>
        Get(Get(Result, "error"), "statusCode") =
            (IF call.outcome = NoResponse THEN Num(500) ELSE call.outcome.status)

\* A 404 response has been turned into {error: {statusCode: 404}} with no data.
C3_Witness ==
    /\ call.pc = "returned"
    /\ call.outcome # NoResponse
    /\ call.outcome.status = Num(404)
    /\ Result.error.statusCode = Num(404)
    /\ Result.data = Undefined

---------------------------------------------------------------------------
(* C4 *)

\* C4 as stated: for a structured error body the error's message, code and details are the
\* body's; when the body is absent or carries no message, the message is the generic
\* transport error message.
C4_MessageOrGeneric ==
    (call.pc = "returned" /\ ~Succeeded(call.outcome)) =>
        LET body == Get(call.outcome, "data")
            error == Get(Result, "error")
        IN  /\ body.t = "object" =>
                /\ error.code = Get(body, "code")
                /\ error.details = Get(body, "details")
            /\ error.message =
                   IF Truthy(Get(body, "message")) THEN body.message
                   ELSE TransportMessage(call.outcome)

\* C4, amended: for a structured error body the error's code and details are the body's and
\* its message is the body's message; when the body carries no message, the message is the
\* body's `error` field if it has one, and the generic transport error message otherwise,
\* as it is when the body is absent or is no object.
C4_MessageErrorOrGeneric ==
    (call.pc = "returned" /\ ~Succeeded(call.outcome)) =>
        LET body == Get(call.outcome, "data")
            error == Get(Result, "error")
        IN  /\ error.code = Get(body, "code")
            /\ error.details = Get(body, "details")
            /\ error.message =
                   IF Truthy(Get(body, "message")) THEN body.message
                   ELSE IF Truthy(Get(body, "error")) THEN body.error
                   ELSE TransportMessage(call.outcome)

\* A failed call whose body has an `error` field and no message has returned that field
\* as the message.
C4_Witness ==
    /\ call.pc = "returned"
    /\ ~Succeeded(call.outcome)
    /\ Get(call.outcome, "data") = ErrOnlyError
    /\ Result.error.message = ErrOnlyError.error

---------------------------------------------------------------------------
(* C5 *)

\* C5: the snapshot getRateLimitInfo returns for an API object is undefined until a response
\* has carried the three headers, and afterwards is {limit: L, remaining: R, resetAt: T} of
\* the last response that carried them (as numerals L and R), whatever came later
\* without them.
C5_SnapshotIsLastCarrying ==
    \A api \in Apis :
        /\ lastCarrying[api] = Undefined => getRateLimitInfo(api) = Undefined
        /\ (lastCarrying[api] # Undefined /\ Numeric(lastCarrying[api])) =>
               getRateLimitInfo(api) = SnapshotOf(lastCarrying[api])

\* After limit=60, remaining=45, reset=1700 a later response without the headers has been
\* processed and the snapshot is still {60, 45, 1700}.
C5_Witness ==
    /\ call.pc = "returned"
    /\ ~CarriesAll(call.outcome)
    /\ lastCarrying[call.api] = HdrA
    /\ getRateLimitInfo(call.api) = RateLimitInfo(Num(60), Num(45), HdrA.reset)

---------------------------------------------------------------------------
(* C6 *)

\* C6: a response outside 2xx that carries the rate-limit headers overwrites the snapshot
\* with them, and the call returns {error}.
C6_FailedResponseUpdates ==
    (/\ call.pc = "returned"
     /\ ~Succeeded(call.outcome)
     /\ CarriesAll(call.outcome)
     /\ Numeric(call.outcome.headers)) =>
        /\ getRateLimitInfo(call.api) = SnapshotOf(call.outcome.headers)
        /\ Populated(Get(Result, "error"))
        /\ Get(Result, "data") = Undefined

\* A 429 with limit=100, remaining=0 has replaced an earlier snapshot.
C6_Witness ==
    /\ call.pc = "returned"
    /\ call.outcome # NoResponse
    /\ call.outcome.status = Num(429)
    /\ call.outcome.headers = HdrB
    /\ getRateLimitInfo(call.api) = RateLimitInfo(Num(100), Num(0), HdrB.reset)
    /\ Result.error.statusCode = Num(429)

---------------------------------------------------------------------------
(* C7 *)

\* C7 as stated: Synthesia.getRateLimitInfo() is the header values of the most recent
\* response, to a call on any of the four API objects, that carried the rate-limit
\* headers, and undefined only if none has.
C7_LastObservedOfInstance ==
    /\ lastCarryingAny = Undefined => SynthesiaGetRateLimitInfo = Undefined
    /\ (lastCarryingAny # Undefined /\ Numeric(lastCarryingAny)) =>
           SynthesiaGetRateLimitInfo = SnapshotOf(lastCarryingAny)

---------------------------------------------------------------------------
(* C8 *)

\* C8: a façade call hands exactly one HTTP request to the transport, whether it succeeds
\* or fails, and a failure is reported in the result.
C8_OneRequestFailureReported ==
    /\ call.pc = "idle" => sent = 0
    /\ call.pc \in {"awaiting", "returned"} => sent = 1
    /\ (call.pc = "returned" /\ ~Succeeded(call.outcome)) => Populated(Get(Result, "error"))

\* A call answered with a 500 has returned its error after one request.
C8_Witness ==
    /\ call.pc = "returned"
    /\ call.outcome # NoResponse
    /\ call.outcome.status = Num(500)
    /\ sent = 1
    /\ Populated(Result.error)

---------------------------------------------------------------------------
(* Vocabulary of the polling properties *)

\* A fetch result with data, and its status.
HasData(result) == Get(result, "data") \notin {Undefined, Null}
TerminalResult(result) ==
    HasData(result) /\ result.data.status \in {Str("complete"), Str("failed")}
NonTerminalResult(result) == HasData(result) /\ ~TerminalResult(result)

\* The number of entries of a log that satisfy a test.
NonTerminalCount(log) == Cardinality({i \in 1..Len(log) : NonTerminalResult(log[i])})

\* pollVideoStatus has returned / has thrown.
PollReturned == poll.pc = "done" /\ poll.outcome.state = "fulfilled"
PollThrown == poll.pc = "done" /\ poll.outcome.state = "rejected"
TimedOut == PollThrown /\ poll.outcome.value = Str("Video processing timed out")

---------------------------------------------------------------------------
(* C9 *)

\* C9: pollVideoStatus returns only "complete" or "failed", and returns it at the first
\* fetch whose status is terminal: a terminal status is the last thing fetched, nothing
\* is fetched and no sleep starts after it; every other status is followed by a sleep
\* of intervalMs and then another fetch while attempts remain.
C9_ReturnsFirstTerminal ==
    /\ PollReturned =>
           /\ poll.outcome.value \in {Str("complete"), Str("failed")}
           /\ fetchLog # <<>>
           /\ TerminalResult(fetchLog[Len(fetchLog)])
           /\ poll.outcome.value = fetchLog[Len(fetchLog)].data.status
    /\ \A i \in 1..Len(fetchLog) :
           TerminalResult(fetchLog[i]) =>
               /\ i = Len(fetchLog)
               /\ PollReturned
               /\ poll.fetches = i
               /\ Len(sleepLog) = i - 1
    /\ \A i \in 1..Len(fetchLog) :
           (NonTerminalResult(fetchLog[i]) /\ i < poll.maxAttempts) =>
               /\ Len(sleepLog) >= i
               /\ sleepLog[i] = poll.intervalMs
               /\ i = Len(fetchLog) =>
                      /\ poll.pc \in {"sleeping", "loop", "fetching"}
                      /\ poll.pc = "loop" => poll.attempt < poll.maxAttempts
                      /\ poll.pc = "fetching" => poll.fetches = i + 1
    /\ poll.pc = "sleeping" => poll.attempt + 1 < poll.maxAttempts

\* "failed" was returned at the second fetch, after one sleep of the default interval.
C9_Witness ==
    /\ PollReturned
    /\ poll.outcome.value = Str("failed")
    /\ Len(fetchLog) = 2
    /\ fetchLog[1] = StatusResult("error")
    /\ sleepLog = <<DefaultIntervalMs>>

---------------------------------------------------------------------------
(* C10 *)

\* C10: after k non-terminal statuses and then a terminal one (k < maxAttempts) the utility
\* returns after k+1 fetch invocations and k sleeps; when every fetch returns a
\* non-terminal status it fails with the timeout error after maxAttempts invocations.
C10_AttemptAccounting ==
    /\ PollReturned =>
           LET k == Len(fetchLog) - 1
           IN  /\ k = NonTerminalCount(fetchLog)
               /\ k < poll.maxAttempts
               /\ poll.fetches = k + 1
               /\ Len(sleepLog) = k
    /\ (poll.pc = "done" /\ NonTerminalCount(fetchLog) = Len(fetchLog)) =>
           /\ TimedOut
           /\ poll.fetches = poll.maxAttempts
    /\ TimedOut => NonTerminalCount(fetchLog) = Len(fetchLog)

\* "in_progress" twice and then "complete": returned after 3 invocations and 2 sleeps.
C10_Witness ==
    /\ PollReturned
    /\ fetchLog = <<StatusResult("in_progress"), StatusResult("in_progress"),
                    StatusResult("complete")>>
    /\ poll.outcome.value = Str("complete")
    /\ poll.fetches = 3
    /\ Len(sleepLog) = 2

---------------------------------------------------------------------------
(* C11 *)

\* C11: pollVideoStatus fails fast.  A getVideo result without data, whether or
\* not it carries an error, is the last thing that happens: the utility rejects
\* with 'Failed to get video status', and no onStatusUpdate call, no sleep and
\* no further getVideo call follows that result.
C11_FailsFastOnNoData ==
    \A j \in 1..Len(eventLog) :
        (eventLog[j].kind = "getVideo" /\ ~HasData(eventLog[j].arg)) =>
            /\ j = Len(eventLog)
            /\ PollThrown
            /\ poll.outcome.value = Str("Failed to get video status")
            /\ poll.fetches = Cardinality({i \in 1..Len(eventLog) : eventLog[i].kind = "getVideo"})

\* The second fetch brought an error and no data, after one status update and one sleep.
C11_Witness ==
    /\ poll.onStatusUpdate
    /\ Len(fetchLog) = 2
    /\ ~HasData(fetchLog[2])
    /\ Populated(fetchLog[2].error)
    /\ PollThrown
    /\ Len(statusLog) = 1
    /\ Len(sleepLog) = 1

---------------------------------------------------------------------------
(* C12 *)

\* C12: when onStatusUpdate is provided, every sleep comes directly after an
\* onStatusUpdate call, which comes directly after the getVideo result of that
\* attempt and was given the status of that result.
C12_UpdateBeforeEverySleep ==
    poll.onStatusUpdate =>
        \A j \in 1..Len(eventLog) :
            eventLog[j].kind = "sleep" =>
                /\ j >= 3
                /\ eventLog[j - 1].kind = "onStatusUpdate"
                /\ eventLog[j - 2].kind = "getVideo"
                /\ eventLog[j - 1].arg = eventLog[j - 2].arg.data.status

\* Two sleeps, after updates with two different statuses.
C12_Witness ==
    /\ poll.onStatusUpdate
    /\ Len(sleepLog) = 2
    /\ statusLog = <<Str("in_progress"), Str("error")>>
    /\ eventLog[Len(eventLog)].kind = "sleep"

---------------------------------------------------------------------------
(* C13 *)

\* C13: calculateRetryDelay(attempt, baseDelay) is baseDelay * 2^attempt, with
\* baseDelay 1000 when omitted: attempt 0 gives baseDelay, and each further
\* attempt doubles the delay of the one before, without a cap.
C13_ExponentialDelay ==
    util.op = "calculateRetryDelay" =>
        LET attempt == util.args[1].v
            base == IF util.args[2] = Undefined THEN 1000 ELSE util.args[2].v
        IN  /\ util.result = Returns(Num(base * 2^attempt))
            /\ attempt = 0 => util.result.value.v = base
            /\ attempt > 0 =>
                util.result.value.v
                    = 2 * calculateRetryDelay(Num(attempt - 1), util.args[2]).value.v

\* The sixth retry with the default base delay: 32 seconds.
C13_Witness ==
    /\ util.op = "calculateRetryDelay"
    /\ util.args = <<Num(5), Undefined>>
    /\ util.result = Returns(Num(32000))

---------------------------------------------------------------------------
(* C14 *)

\* C14: isRateLimited is true exactly for statusCode 429, isAuthenticationError
\* exactly for 401 and 403, isValidationError exactly for 400; for any error at
\* most one of the three is true.
C14_StatusPredicates ==
    util.op \in {"isRateLimited", "isAuthenticationError", "isValidationError"} =>
        LET error == util.args[1]
            code == error.statusCode.v
            One(r) == IF r.value.v THEN 1 ELSE 0
        IN  /\ util.op = "isRateLimited" => util.result = Returns(Bool(code = 429))
            /\ util.op = "isAuthenticationError" => util.result = Returns(Bool(code \in {401, 403}))
            /\ util.op = "isValidationError" => util.result = Returns(Bool(code = 400))
            /\ One(isRateLimited(error)) + One(isAuthenticationError(error))
                 + One(isValidationError(error)) <= 1

\* A 403 is an authentication error.
C14_Witness ==
    /\ util.op = "isAuthenticationError"
    /\ util.args[1].statusCode = Num(403)
    /\ util.result = Returns(Bool(TRUE))

---------------------------------------------------------------------------
(* C15 *)

\* C15: for a string payload and secret, validateWebhookSignature returns true
\* for the signature "sha256=" followed by the hex HMAC-SHA256 of the payload
\* under the secret, and returns false, without throwing, when the signature
\* signs another payload, lacks the "sha256=" prefix or is anything else.
C15_WebhookSignature ==
    (util.op = "validateWebhookSignature" /\ util.args[3].t = "string") =>
        LET payload == util.args[1]
            signature == util.args[2]
            secret == util.args[3]
            Signed(p) == Text(<<Lit("sha256="), HmacSha256Hex(secret, p)>>)
        IN  /\ util.result.completion = "return"
            /\ signature = Signed(payload) => util.result.value = Bool(TRUE)
            /\ (\E p \in WebhookPayloads \ {payload} : signature = Signed(p)) =>
                    util.result.value = Bool(FALSE)
            /\ (signature = Undefined \/ signature.v = <<>> \/ signature.v[1] # Lit("sha256=")) =>
                    util.result.value = Bool(FALSE)
            /\ signature # Signed(payload) => util.result.value = Bool(FALSE)

\* The signature of the payload under the secret is accepted.
C15_Witness ==
    /\ util.op = "validateWebhookSignature"
    /\ util.args[3] = Str("test-secret")
    /\ util.args[2] = Text(<<Lit("sha256="), HmacSha256Hex(Str("test-secret"), util.args[1])>>)
    /\ util.result = Returns(Bool(TRUE))

---------------------------------------------------------------------------
(* C16 *)

\* C16: isValidWebhookEvent returns true for 'video.created', 'video.complete'
\* and 'video.failed', and false for any other string.
C16_ValidEvents ==
    util.op = "isValidWebhookEvent" =>
        util.result = Returns(Bool(util.args[1] \in {Str("video.created"), Str("video.complete"),
                                                     Str("video.failed")}))

---------------------------------------------------------------------------
(* C17 *)

\* C17: every request handed to axios, on the primary host and on the upload
\* host, with or without per-call headers, carries the header Authorization
\* equal to the apiKey of the configuration, as it is; and no step changes the
\* configuration (apiKey, baseURL) after construction.
C17_AuthorizationOnEveryRequest ==
    /\ [](call.pc = "awaiting" =>
            /\ call.request.headers.Authorization = config.apiKey
            /\ call.request.baseURL \in {config.baseURL, UploadBaseURL})
    /\ [][config' = config]_vars

\* An upload with its own Content-Type header, on a client with another key.
C17_Witness ==
    /\ call.pc = "awaiting"
    /\ call.op = "uploadImage"
    /\ config.apiKey = Str("staging-key")
    /\ call.request.headers.ContentType = Str("image/png")
    /\ call.request.headers.Authorization = Str("staging-key")

---------------------------------------------------------------------------
(* C18 *)

\* C18: every upload operation is a POST to the upload host, with the file as
\* the body and the caller's contentType as Content-Type (audio/mpeg for
\* uploadScriptAudio); every operation of videos, templates and webhooks goes
\* to the base URL of the configuration and not to the upload host.
C18_UploadsToUploadHost ==
    call.pc = "awaiting" =>
        LET r == call.request
            file == IF call.op = "uploadAsset" THEN call.args[1].file ELSE call.args[1]
            contentType == CASE call.op = "uploadAsset" -> call.args[1].contentType
                             [] call.op = "uploadScriptAudio" -> Str("audio/mpeg")
                             [] OTHER -> call.args[2]
        IN  /\ call.api = "uploads" =>
                /\ r.baseURL = UploadBaseURL
                /\ r.method = "POST"
                /\ r.data = file
                /\ r.headers.ContentType = contentType
            /\ call.api # "uploads" =>
                /\ r.baseURL = config.baseURL
                /\ r.baseURL # UploadBaseURL

\* uploadScriptAudio on a client whose base URL was configured.
C18_Witness ==
    /\ call.pc = "awaiting"
    /\ call.op = "uploadScriptAudio"
    /\ config.baseURL = Str("https://staging.example.com/v2")
    /\ call.request.baseURL = UploadBaseURL
    /\ call.request.headers.ContentType = Str("audio/mpeg")

---------------------------------------------------------------------------
(* C19 *)

\* C19: createVideoFromTemplate issues one POST to /videos/fromTemplate whose
\* body has templateId and templateData from the arguments, every field of
\* options, title 'Video from Template' and visibility 'private' when the
\* caller gives none; the body always has a non-empty title and a visibility
\* of 'public' or 'private'.
C19_TemplateBody ==
    (call.pc = "awaiting" /\ call.op = "createVideoFromTemplate") =>
        LET body == call.request.data
            options == call.args[3]
            given == IF options = Undefined THEN {} ELSE DOMAIN options \ {"t"}
        IN  /\ sent = 1
            /\ call.request.method = "POST"
            /\ call.request.url = <<"/videos/fromTemplate">>
            /\ body.templateId = call.args[1]
            /\ body.templateData = call.args[2]
            /\ \A k \in given : body[k] = options[k]
            /\ ~Populated(Get(options, "title")) => body.title = Str("Video from Template")
            /\ ~Populated(Get(options, "visibility")) => body.visibility = Str("private")
            /\ body.title.t = "string" /\ body.title.v # ""
            /\ body.visibility \in {Str("public"), Str("private")}

---------------------------------------------------------------------------
(* C20 *)

\* C20: the error SynthesiaSDKError.fromResponse makes of a failed result is an
\* instance of the class of its status: ValidationError for 400,
\* AuthenticationError for 401, RateLimitError for 429, NotFoundError for 404,
\* ServerError for 500 and above.
C20_TypedErrors ==
    util.op = "fromResponse" =>
        LET e == util.result.value
            code == util.args[1].statusCode.v
        IN  /\ code = 400 => InstanceOf(e, "ValidationError")
            /\ code = 401 => InstanceOf(e, "AuthenticationError")
            /\ code = 429 => InstanceOf(e, "RateLimitError")
            /\ code = 404 => InstanceOf(e, "NotFoundError")
            /\ code >= 500 => InstanceOf(e, "ServerError")

---------------------------------------------------------------------------
(* C21 *)

\* C21: a network failure, where no response was received, gives an error of
\* statusCode 500: on the SynthesiaSDKError made of it isServerError is true and
\* isRateLimited, isAuthenticationError, isValidationError and isNotFound are false.
C21_NetworkFailureIsServerError ==
    (util.op \in {"SynthesiaSDKError.isRateLimited", "SynthesiaSDKError.isAuthenticationError",
                  "SynthesiaSDKError.isValidationError", "SynthesiaSDKError.isNotFound",
                  "SynthesiaSDKError.isServerError"}
     /\ util.args[1] = NoResponse) =>
        /\ util.args[2].statusCode = Num(500)
        /\ util.result = Returns(Bool(util.op = "SynthesiaSDKError.isServerError"))

\* isServerError() was called on the error of a network failure.
C21_Witness ==
    /\ util.op = "SynthesiaSDKError.isServerError"
    /\ util.args[1] = NoResponse
    /\ util.args[2].message = NetworkMessage
    /\ util.result = Returns(Bool(TRUE))

---------------------------------------------------------------------------
(* C22 *)

\* C22: listVideos and listTemplates (source, offset, limit) and listWebhooks
\* (limit, offset, deleted) send every filter field the caller supplies as a
\* query parameter with the same value, offset 0 and deleted = false included,
\* and no other parameter; a call without a request sends empty params.
C22_FiltersForwarded ==
    (call.pc = "awaiting" /\ call.op \in {"listVideos", "listTemplates", "listWebhooks"}) =>
        LET req == call.args[1]
            fields == IF call.op = "listWebhooks" THEN {"limit", "offset", "deleted"}
                      ELSE {"source", "offset", "limit"}
            supplied == {f \in fields : Get(req, f) # Undefined}
            params == call.request.params
        IN  /\ params.t = "object"
            /\ DOMAIN params \ {"t"} = supplied
            /\ \A f \in supplied : params[f] = req[f]

---------------------------------------------------------------------------
(* C23 *)

\* C23: a call answered with a 2xx response whose body is null returns a result
\* whose error is undefined and whose data is that body, null: the promise is
\* fulfilled and the body is passed through unchanged.
C23_NullBodyPassedThrough ==
    (call.pc = "returned" /\ Succeeded(call.outcome) /\ call.outcome.data = Null) =>
        /\ call.returned.state = "fulfilled"
        /\ Get(Result, "error") = Undefined
        /\ Get(Result, "data") = Null

\* A 204 with a null body has been returned to the caller.
C23_Witness ==
    /\ call.pc = "returned"
    /\ call.outcome # NoResponse
    /\ call.outcome.status = Num(204)
    /\ call.outcome.data = Null
    /\ Result = APIResponse(Null, Undefined)

---------------------------------------------------------------------------
(* C24 *)

\* The positions, in processing order, of the responses that brought all three
\* rate-limit headers, and the headers of the last of them.
CarryingArrivals == {i \in 1..Len(arrivals) : CarriesAll(arrivals[i].outcome)}
LastCarryingArrival ==
    arrivals[CHOOSE i \in CarryingArrivals : \A j \in CarryingArrivals : j <= i]

\* C24: with several requests in flight on one API object, the snapshot is
\* last-write-wins over the order in which the responses are processed: it is
\* absent until a response with all three headers has been processed, and
\* afterwards it is the whole triple of the most recently processed such
\* response, never fields of two responses, whatever the order of issue.
C24_SnapshotLastWriteWins ==
    LET snap == rateLimitInfo["videos"]
    IN  IF CarryingArrivals = {} THEN snap = Undefined
        ELSE LET h == LastCarryingArrival.outcome.headers
             IN  /\ snap # Undefined
                 /\ snap.resetAt = h.reset
                 /\ Numeric(h) => snap = SnapshotOf(h)

\* Requests 1 and 2 were in flight together; the response of 2 was processed
\* first and that of 1 afterwards, and the snapshot is that of request 1.
C24_Witness ==
    /\ Len(arrivals) = 2
    /\ arrivals[1].id = 2 /\ arrivals[1].outcome.headers = HdrB
    /\ arrivals[2].id = 1 /\ arrivals[2].outcome.headers = HdrA
    /\ rateLimitInfo["videos"] = SnapshotOf(HdrA)

---------------------------------------------------------------------------
(* C25 *)

\* C25: every stored snapshot has integer limit and remaining: whatever header
\* values caused the overwrite, both stored values are numbers, and they are
\* the integers the headers denote when the headers are decimal numerals.
C25_SnapshotIntegers ==
    LET snap == rateLimitInfo["videos"]
    IN  snap # Undefined =>
            /\ snap.limit.t = "number"
            /\ snap.remaining.t = "number"
            /\ LET h == LastCarryingArrival.outcome.headers
               IN  Numeric(h) =>
                       /\ snap.limit = Num(NumeralValue(h.limit.v))
                       /\ snap.remaining = Num(NumeralValue(h.remaining.v))

---------------------------------------------------------------------------
(* C26 *)

\* C26: processing a response that does not bring all three rate-limit headers
\* (some of them only, or none) leaves every snapshot exactly as it was: the
\* snapshot changes only on a response with all three headers, never in part.
C26_PartialHeadersLeaveSnapshot ==
    [][Len(arrivals') = Len(arrivals) + 1 =>
           (~CarriesAll(arrivals'[Len(arrivals')].outcome) => rateLimitInfo' = rateLimitInfo)]_vars

\* A response with the limit and reset headers but no remaining header was
\* processed right after one with all three, whose snapshot is still stored.
C26_Witness ==
    /\ Len(arrivals) >= 2
    /\ arrivals[Len(arrivals)].outcome.headers = HdrPartial
    /\ arrivals[Len(arrivals) - 1].outcome.headers = HdrA
    /\ rateLimitInfo["videos"] = SnapshotOf(HdrA)

---------------------------------------------------------------------------
(* C27 *)

\* C27: the body createVideoFromTemplate(templateId, data, options) posts has
\* its templateId and templateData equal to the two positional arguments,
\* whatever options is, also when options has those keys itself.
C27_PositionalArgumentsWin ==
    (call.pc = "awaiting" /\ call.op = "createVideoFromTemplate") =>
        /\ call.request.data.templateId = call.args[1]
        /\ call.request.data.templateData = call.args[2]

---------------------------------------------------------------------------
(* C28 *)

\* The statuses of the fetches that returned data, in fetch order.
StatusesFetched ==
    LET withData == SelectSeq(fetchLog, HasData)
    IN  [i \in 1..Len(withData) |-> withData[i].data.status]

\* C28: with an onStatusUpdate callback, the statuses passed to the callback
\* are exactly the statuses of the fetches that returned data, one call per
\* such fetch and in fetch order, the call coming right after its fetch; this
\* includes the terminal status and the last attempt before the timeout.
C28_OneUpdatePerFetch ==
    poll.onStatusUpdate =>
        /\ statusLog = StatusesFetched
        /\ \A j \in 1..Len(eventLog) :
               (eventLog[j].kind = "getVideo" /\ HasData(eventLog[j].arg)) =>
                   /\ j < Len(eventLog)
                   /\ eventLog[j + 1] = StatusUpdate(eventLog[j].arg.data.status)
        /\ \A j \in 1..Len(eventLog) :
               eventLog[j].kind = "onStatusUpdate" => (j > 1 /\ eventLog[j - 1].kind = "getVideo")

\* The polling timed out after three fetches with data, the last attempt
\* included, and each status was reported.
C28_Witness ==
    /\ poll.onStatusUpdate
    /\ TimedOut
    /\ Len(fetchLog) = 3
    /\ statusLog = <<Str("in_progress"), Str("error"), Str("in_progress")>>

---------------------------------------------------------------------------
(* C29 *)

\* The most fetches and sleeps a polling with this maxAttempts may make.
MostFetches == IF poll.maxAttempts > 0 THEN poll.maxAttempts ELSE 0
MostSleeps == IF poll.maxAttempts > 1 THEN poll.maxAttempts - 1 ELSE 0

\* C29: when every fetch returns, pollVideoStatus finishes, for every
\* maxAttempts and every sequence of fetch results; it never makes more than
\* maxAttempts fetches nor more than maxAttempts - 1 sleeps; once finished
\* after at least one fetch it has slept once less than it has fetched; and
\* with maxAttempts <= 0 it finishes with the timeout error, having fetched nothing.
C29_PollingTerminates ==
    /\ <>(poll.pc = "done")
    /\ [](/\ poll.fetches <= MostFetches
          /\ Len(fetchLog) <= poll.fetches
          /\ Len(sleepLog) <= MostSleeps
          /\ (poll.pc = "done" /\ poll.fetches >= 1) =>
                 (Len(fetchLog) = poll.fetches /\ Len(sleepLog) = poll.fetches - 1)
          /\ (poll.pc = "done" /\ poll.maxAttempts <= 0) =>
                 (TimedOut /\ poll.fetches = 0 /\ fetchLog = <<>> /\ sleepLog = <<>>))

\* The polling timed out after making every attempt allowed, the most there
\* can be, with one sleep less than fetches.
C29_Witness ==
    /\ TimedOut
    /\ poll.maxAttempts = MaxAttemptsBound
    /\ poll.fetches = MaxAttemptsBound
    /\ Len(fetchLog) = MaxAttemptsBound
    /\ Len(sleepLog) = MaxAttemptsBound - 1

=============================================================================
